---- MODULE Spec2Model ----
(***************************************************************************)
(* Model of the session / chunk / playlist subsystem of hls-server         *)
(* (src/src/video.ts, second listing, lines 367-829).                      *)
(*                                                                         *)
(* Text is modelled as it is built: a string is a sequence of one-char     *)
(* strings, a playlist is a sequence of lines, and a line is a sequence of *)
(* tokens in which every literal tag of the source is one token and every  *)
(* interpolated value is spelled out char by char.  Numbers are kept in    *)
(* tenths of a second (45 is 4.5 s) so that fractional durations have a    *)
(* decimal rendering.                                                      *)
(*                                                                         *)
(* Every handler is cut at its awaits.  A filesystem call takes effect in  *)
(* one step; the synchronous code that follows its resumption is merged    *)
(* into the next step unless it reads or writes the registry.              *)
(***************************************************************************)
EXTENDS Integers, Sequences, FiniteSets, TLC

VARIABLES registry, store, procs, ops, finalized, response

vars == <<registry, store, procs, ops, finalized, response>>

\* ------------------------------------------------------------------ bounds
\* Requests, restarts and out-of-band deletions admitted in one behaviour.
MaxOps == 3

\* ------------------------------------------------------------- characters
Digits == {"0", "1", "2", "3", "4", "5", "6", "7", "8", "9"}

DigitVal(c) ==
  CASE c = "0" -> 0 [] c = "1" -> 1 [] c = "2" -> 2 [] c = "3" -> 3
    [] c = "4" -> 4 [] c = "5" -> 5 [] c = "6" -> 6 [] c = "7" -> 7
    [] c = "8" -> 8 [] c = "9" -> 9

DigitChar(n) ==
  CASE n = 0 -> "0" [] n = 1 -> "1" [] n = 2 -> "2" [] n = 3 -> "3"
    [] n = 4 -> "4" [] n = 5 -> "5" [] n = 6 -> "6" [] n = 7 -> "7"
    [] n = 8 -> "8" [] n = 9 -> "9"

\* String.prototype.toLowerCase on the letters that occur in file names.
LowerChar(c) ==
  CASE c = "C" -> "c" [] c = "H" -> "h" [] c = "U" -> "u" [] c = "N" -> "n"
    [] c = "K" -> "k" [] c = "M" -> "m" [] c = "P" -> "p" [] c = "S" -> "s"
    [] c = "I" -> "i" [] c = "T" -> "t"
    [] OTHER -> c

toLowerCase(f) == [i \in 1..Len(f) |-> LowerChar(f[i])]

\* Number of leading decimal digits of a char sequence.
RECURSIVE DigitPrefixLen(_)
DigitPrefixLen(cs) ==
  IF cs # <<>> /\ Head(cs) \in Digits THEN 1 + DigitPrefixLen(Tail(cs)) ELSE 0

\* Value of a sequence of decimal digits.
RECURSIVE DigitsValue(_)
DigitsValue(ds) ==
  IF ds = <<>> THEN 0
  ELSE 10 * DigitsValue(SubSeq(ds, 1, Len(ds) - 1)) + DigitVal(ds[Len(ds)])

\* Decimal digits of a natural number.
RECURSIVE NatToChars(_)
NatToChars(n) ==
  IF n < 10 THEN <<DigitChar(n)>> ELSE NatToChars(n \div 10) \o <<DigitChar(n % 10)>>

\* Number.prototype.toString of a non-negative number held in tenths:
\* 40 is "4", 45 is "4.5", 5 is "0.5".
NumToChars(t) ==
  IF t % 10 = 0 THEN NatToChars(t \div 10)
  ELSE NatToChars(t \div 10) \o <<".", DigitChar(t % 10)>>

\* parseInt(s, 10) of a run of decimal digits, in tenths.
parseInt(ds) == 10 * DigitsValue(ds)

\* ------------------------------------------------------------- file names
chunk1_mp4 == <<"c", "h", "u", "n", "k", "1", ".", "m", "p", "4">>
chunk2_mp4 == <<"c", "h", "u", "n", "k", "2", ".", "m", "p", "4">>
chunk10_mp4 == <<"c", "h", "u", "n", "k", "1", "0", ".", "m", "p", "4">>
init_0_mp4 == <<"i", "n", "i", "t", "_", "0", ".", "m", "p", "4">>
notes_txt == <<"n", "o", "t", "e", "s", ".", "t", "x", "t">>
chunk00000_mp4 == <<"c", "h", "u", "n", "k", "0", "0", "0", "0", "0", ".", "m", "p", "4">>
chunk1_MP4 == <<"c", "h", "u", "n", "k", "1", ".", "M", "P", "4">>

\* The names the handlers synthesise when the client declares none.
DefaultInitName == <<"i", "n", "i", "t", ".", "m", "p", "4">>

\* String.prototype.padStart(n, '0').
RECURSIVE padStart(_, _)
padStart(cs, n) == IF Len(cs) >= n THEN cs ELSE padStart(<<"0">> \o cs, n)

DefaultSegmentName(chunkId) ==
  <<"s", "e", "g", "m", "e", "n", "t", "_">> \o padStart(chunkId, 5) \o <<".", "m", "p", "4">>

\* path.basename: what follows the last "/".
RECURSIVE basename(_)
basename(f) ==
  IF \E i \in 1..Len(f) : f[i] = "/"
  THEN basename(SubSeq(f, 1 + (CHOOSE i \in 1..Len(f) : f[i] = "/" /\ \A j \in 1..(i - 1) : f[j] # "/"), Len(f)))
  ELSE f

\* /\.(mp4|m4s)$/i
HasMediaExt(f) ==
  /\ Len(f) >= 4
  /\ toLowerCase(SubSeq(f, Len(f) - 3, Len(f))) \in {<<".", "m", "p", "4">>, <<".", "m", "4", "s">>}

\* f.toLowerCase().includes('init')
IncludesInit(f) ==
  \E i \in 1..(Len(f) - 3) : SubSeq(toLowerCase(f), i, i + 3) = <<"i", "n", "i", "t">>

\* The init-fragment test of generateHLSPlaylist.
IsInitName(f) == IncludesInit(f) /\ HasMediaExt(f)

\* /^chunk\d+\.(mp4|m4s)$/i
IsSegmentName(f) ==
  /\ Len(f) >= 10
  /\ toLowerCase(SubSeq(f, 1, 5)) = <<"c", "h", "u", "n", "k">>
  /\ HasMediaExt(f)
  /\ \A i \in 6..(Len(f) - 4) : f[i] \in Digits

\* parseInt of the captured digits of a segment name ('0' when there is no match).
SegmentIndex(f) ==
  IF IsSegmentName(f) THEN DigitsValue(SubSeq(f, 6, Len(f) - 4)) ELSE 0

\* ------------------------------------------------------ playlist generator
DEFAULT_SEGMENT_DURATION == 5

\* Whole seconds in the model's unit (tenths of a second).
Seconds(n) == 10 * n

\* Insert f behind every element whose index is not larger: the sort is stable.
RECURSIVE InsertByIndex(_, _)
InsertByIndex(sorted, f) ==
  IF sorted = <<>> THEN <<f>>
  ELSE IF SegmentIndex(Head(sorted)) - SegmentIndex(f) <= 0
       THEN <<Head(sorted)>> \o InsertByIndex(Tail(sorted), f)
       ELSE <<f>> \o sorted

\* Array.prototype.sort with the comparator numA - numB.
SortByIndex(fs) ==
  LET S[i \in 0..Len(fs)] ==
        IF i = 0 THEN <<>> ELSE InsertByIndex(S[i - 1], fs[i])
  IN S[Len(fs)]

SegmentFiles(files) == SortByIndex(SelectSeq(files, IsSegmentName))

\* files.find(...): the first init candidate of the listing, if any.
InitFiles(files) == SelectSeq(files, IsInitName)

\* The duration the generator resolves from the registry entry.
ResolveDuration(metadata) ==
  IF metadata.present /\ metadata.segmentDuration # 0
  THEN metadata.segmentDuration
  ELSE Seconds(DEFAULT_SEGMENT_DURATION)

TargetDurationTag == "#EXT-X-TARGETDURATION:"
EndListLine == <<"#EXT-X-ENDLIST">>

SegmentLines(segs, dur) ==
  LET L[i \in 0..Len(segs)] ==
        IF i = 0 THEN <<>>
        ELSE L[i - 1] \o << <<"#EXTINF:">> \o NumToChars(dur) \o <<".", "0", "0", "0", ",">>,
                             segs[i] >>
  IN L[Len(segs)]

\* generateHLSPlaylist once readdir has returned `files`: metadata is the
\* registry entry of the session, sequenceId the chars of the chunk id.
generateHLSPlaylist(files, metadata, sequenceId, isFinal) ==
  LET segmentDuration == ResolveDuration(metadata)
      inits == InitFiles(files)
  IN  << <<"#EXTM3U">>,
         <<"#EXT-X-VERSION:7">>,
         <<"#EXT-X-PLAYLIST-TYPE:EVENT">>,
         <<TargetDurationTag>> \o NumToChars(segmentDuration),
         <<"#EXT-X-MEDIA-SEQUENCE:">> \o sequenceId >>
      \o (IF inits # <<>> THEN << <<"#EXT-X-MAP:URI=", "\"">> \o inits[1] \o <<"\"">> >> ELSE <<>>)
      \o << <<>> >>
      \o SegmentLines(SegmentFiles(files), segmentDuration)
      \o (IF isFinal THEN <<EndListLine>> ELSE <<>>)

\* playlistContent.match(/#EXT-X-TARGETDURATION:(\d+)/): the digits captured
\* at the first place the pattern matches, <<>> when it matches nowhere.
TargetDurationMatch(text) ==
  LET hits == {i \in 1..Len(text) :
                 /\ text[i] # <<>>
                 /\ Head(text[i]) = TargetDurationTag
                 /\ DigitPrefixLen(Tail(text[i])) > 0}
  IN  IF hits = {} THEN <<>>
      ELSE LET i == CHOOSE h \in hits : \A k \in hits : h <= k
           IN  SubSeq(Tail(text[i]), 1, DigitPrefixLen(Tail(text[i])))

\* ------------------------------------------------------ request body values
\* segmentDuration of the JSON body: absent, a number (in tenths) or a string.
Absent == [k |-> "absent", n |-> 0, s |-> <<>>]
Num(n) == [k |-> "num", n |-> n, s |-> <<>>]
Str(s) == [k |-> "str", n |-> 0, s |-> s]

\* JavaScript truthiness of the value.
Truthy(v) ==
  CASE v.k = "absent" -> FALSE
    [] v.k = "num" -> v.n # 0
    [] v.k = "str" -> v.s # <<>>

\* parseFloat(String(v)): NaN unless the text starts with a decimal literal;
\* the value is kept to one decimal place.
parseFloat(v) ==
  IF v.k = "num" THEN [nan |-> FALSE, v |-> v.n]
  ELSE LET neg == v.s # <<>> /\ Head(v.s) = "-"
           body == IF v.s # <<>> /\ Head(v.s) \in {"-", "+"} THEN Tail(v.s) ELSE v.s
           n == DigitPrefixLen(body)
           rest == SubSeq(body, n + 1, Len(body))
           frac == IF Len(rest) >= 2 /\ rest[1] = "." /\ rest[2] \in Digits
                   THEN DigitVal(rest[2]) ELSE 0
           hasFrac == Len(rest) >= 2 /\ rest[1] = "." /\ rest[2] \in Digits
           mag == 10 * DigitsValue(SubSeq(body, 1, n)) + frac
       IN  IF n = 0 /\ ~hasFrac THEN [nan |-> TRUE, v |-> 0]
           ELSE [nan |-> FALSE, v |-> IF neg THEN 0 - mag ELSE mag]

\* -------------------------------------------------------------------- state
Sessions == {"s1", "s2"}

\* A session id that is not a plain name: the string "../s9".
Traversal == "../s9"

\* A session id that names the directory of another id: the string "s1/../s2".
Alias == "s1/../s2"

\* Every string that is used as a session id: the keys of the registry.  The
\* chunk store has one entry per directory, store[DirOf(id)] being the
\* directory at sessionDir(id).
Ids == Sessions \cup {Traversal, Alias}

\* The id split at its path separators.
split(id) ==
  CASE id = Traversal -> <<"..", "s9">>
    [] id = Alias -> <<"s1", "..", "s2">>
    [] OTHER -> <<id>>

\* path.normalize of a relative path, segment by segment: "." and empty
\* segments are dropped and ".." removes the segment before it, if there is
\* one that is not ".." itself.
normalize(segments) ==
  LET N[i \in 0..Len(segments)] ==
        IF i = 0 THEN <<>>
        ELSE LET done == N[i - 1]
                 segment == segments[i]
             IN  IF segment \in {".", ""} THEN done
                 ELSE IF segment = ".." /\ done # <<>> /\ done[Len(done)] # ".."
                 THEN SubSeq(done, 1, Len(done) - 1)
                 ELSE Append(done, segment)
  IN  N[Len(segments)]

\* path.join(a, b)
join(a, b) == normalize(a \o b)

\* path.join(process.env['STORAGE_PATH'] || './storage', 'videos'), with
\* STORAGE_PATH unset.
VIDEO_BASE_DIR == join(<<".", "storage">>, <<"videos">>)

\* path.join(VIDEO_BASE_DIR, sessionId)
sessionDir(id) == join(VIDEO_BASE_DIR, split(id))

\* The directory of the id is the entry of VIDEO_BASE_DIR that has its name.
IsEntryOfBaseDir(id) == sessionDir(id) = VIDEO_BASE_DIR \o <<id>>

\* The key of the chunk store for the directory of an id: the plain name whose
\* directory it is, if there is one, else the id itself.  An id without a
\* separator is the name of its own directory.
DirOf(id) ==
  IF split(id) = <<id>> THEN id
  ELSE LET owners == {s \in Sessions : sessionDir(s) = sessionDir(id)}
       IN  IF owners # {} THEN CHOOSE s \in owners : TRUE ELSE id

\* Request slots: handlers that can be between two awaits at the same time.
Procs == {"p1", "p2"}

NoMetadata == [present |-> FALSE, segmentDuration |-> 0]
Metadata(d) == [present |-> TRUE, segmentDuration |-> d]

\* A session directory that does not exist.
NoDir ==
  [exists |-> FALSE, files |-> <<>>, data |-> <<>>, hasPlaylist |-> FALSE, playlist |-> <<>>]

\* The form fields of a chunk upload: the chunk id of the path, the client's
\* file name (body.filename || file.originalname) if any, the isFirst flag,
\* whether the multipart body carries a "chunk" file at all, and the bytes of
\* that file (ctx.file.buffer).
Upload(chunkId, hasName, name, isFirst, hasChunk, buffer) ==
  [chunkId |-> chunkId, hasName |-> hasName, name |-> name,
   isFirst |-> isFirst, hasChunk |-> hasChunk, buffer |-> buffer]

NoUpload == Upload(<<>>, FALSE, <<>>, FALSE, FALSE, <<>>)

IdleProc ==
  [pc |-> "idle", op |-> "none", sid |-> "s1", up |-> NoUpload, body |-> Absent,
   listing |-> <<>>, dur |-> 0, text |-> <<>>, orphan |-> FALSE, late |-> FALSE, fresh |-> FALSE]

\* A response: the status and, of the body, the error message or the chunk id,
\* stored file name and size it reports.  The body of a served playlist is
\* its text; every other response has none.
Response(op, sid, status, error, id, filename, size, late, fresh) ==
  [op |-> op, sid |-> sid, status |-> status, error |-> error, id |-> id,
   filename |-> filename, size |-> size, playlist |-> <<>>, late |-> late, fresh |-> fresh]

NoResponse == Response("none", "s1", 0, "", <<>>, <<>>, 0, FALSE, FALSE)

Uploads ==
  { Upload(<<"1", "0">>, TRUE, chunk10_mp4, FALSE, TRUE, <<1>>),
    Upload(<<"2">>, TRUE, chunk2_mp4, FALSE, TRUE, <<1>>),
    Upload(<<"1">>, TRUE, chunk1_mp4, FALSE, TRUE, <<1>>),
    Upload(<<"0">>, TRUE, init_0_mp4, TRUE, TRUE, <<1>>),
    Upload(<<"3">>, FALSE, <<>>, FALSE, TRUE, <<1>>),
    Upload(<<"4">>, TRUE, notes_txt, FALSE, TRUE, <<1>>),
    Upload(<<"5">>, FALSE, <<>>, FALSE, FALSE, <<>>) }

Bodies == {Absent, Num(0), Num(0 - 10), Num(80), Num(45), Str(<<"a", "b", "c">>)}

Init ==
  /\ registry = [s \in Ids |-> NoMetadata]
  /\ store = [s \in Ids |-> NoDir]
  /\ procs = [p \in Procs |-> IdleProc]
  /\ ops = 0
  /\ finalized = [s \in Ids |-> FALSE]
  /\ response = NoResponse

\* A request is taken by the first free slot.
Free(p) ==
  /\ procs[p].pc = "idle"
  /\ \A q \in Procs : procs[q].pc = "idle" => (p = "p1" \/ q # "p1")
  /\ ops < MaxOps

\* The handler in slot p answers with a body that reports a chunk or an init
\* fragment.
RespondWith(p, status, id, filename, size) ==
  /\ response' = Response(procs[p].op, procs[p].sid, status, "", id, filename, size,
                          procs[p].late, procs[p].fresh)
  /\ procs' = [procs EXCEPT ![p] = IdleProc]

Respond(p, status) == RespondWith(p, status, <<>>, <<>>, 0)

\* The handler in slot p answers with an error body.
RespondError(p, status, error) ==
  /\ response' = Response(procs[p].op, procs[p].sid, status, error, <<>>, <<>>, 0,
                          procs[p].late, procs[p].fresh)
  /\ procs' = [procs EXCEPT ![p] = IdleProc]

Goto(p, pc) == procs' = [procs EXCEPT ![p].pc = pc]

\* The body of the 500 answer of a handler's catch.
FailureOf(op) ==
  CASE op = "upload" -> "Failed to process video chunk"
    [] op = "finalize" -> "Failed to finalize video session"
    [] op = "playlist" -> "Failed to serve playlist"
    [] OTHER -> "Failed to create video session"

\* fs.mkdir(sessionDir, { recursive: true })
mkdir(s) == store' = [store EXCEPT ![DirOf(s)].exists = TRUE]

\* A write that always makes a new directory entry.
WithFile_AlwaysAppends(dir, f, buffer) ==
  [dir EXCEPT !.files = Append(dir.files, f), !.data = Append(dir.data, buffer)]

\* fs.writeFile of a chunk into an existing directory: a new entry goes last,
\* an existing one keeps its place and gets the new bytes.
WithFile(dir, f, buffer) ==
  IF \E i \in 1..Len(dir.files) : dir.files[i] = f
  THEN [dir EXCEPT !.data[CHOOSE i \in 1..Len(dir.files) : dir.files[i] = f] = buffer]
  ELSE [dir EXCEPT !.files = Append(dir.files, f), !.data = Append(dir.data, buffer)]

\* ------------------------------------------------------------ POST /sessions
\* The sessionId of a create body that carries none (or an empty one).
NoId == ""

\* uuidv4(): an identifier that names no session yet.
IsFreshId(u) == ~store[u].exists /\ ~registry[u].present

\* requestBody?.sessionId || uuidv4()
ResolveSessionId(requested, uuid) == IF requested # NoId THEN requested ELSE uuid

\* A create that starts the session directory afresh.
CreateSession_EmptiesDirectory(p, requested, uuid, body) ==
  /\ Free(p)
  /\ requested = NoId => IsFreshId(uuid)
  /\ ops' = ops + 1
  /\ LET s == ResolveSessionId(requested, uuid)
     IN  /\ store' = [store EXCEPT ![DirOf(s)] = [NoDir EXCEPT !.exists = TRUE]]
         /\ procs' = [procs EXCEPT ![p] =
              [IdleProc EXCEPT !.pc = "create_validate", !.op = "create", !.sid = s,
                               !.body = body, !.late = finalized[s], !.fresh = ~store[DirOf(s)].exists]]
  /\ UNCHANGED <<registry, finalized, response>>

CreateSession(p, requested, uuid, body) ==
  /\ Free(p)
  /\ requested = NoId => IsFreshId(uuid)
  /\ ops' = ops + 1
  /\ LET s == ResolveSessionId(requested, uuid)
     IN  /\ mkdir(s)
         /\ procs' = [procs EXCEPT ![p] =
              [IdleProc EXCEPT !.pc = "create_validate", !.op = "create", !.sid = s,
                               !.body = body, !.late = finalized[s], !.fresh = ~store[DirOf(s)].exists]]
  /\ UNCHANGED <<registry, finalized, response>>

CreateValidate(p) ==
  /\ procs[p].pc = "create_validate"
  /\ LET segmentDuration ==
           IF Truthy(procs[p].body) THEN procs[p].body
           ELSE Num(Seconds(DEFAULT_SEGMENT_DURATION))
         parsedDuration == parseFloat(segmentDuration)
     IN  IF parsedDuration.nan \/ parsedDuration.v <= 0
         THEN /\ RespondError(p, 400, "segmentDuration must be a positive number")
              /\ UNCHANGED registry
         ELSE /\ registry' = [registry EXCEPT ![procs[p].sid] = Metadata(parsedDuration.v)]
              /\ Respond(p, 200)
  /\ UNCHANGED <<store, ops, finalized>>

\* ---------------------------------- POST /sessions/:sessionId/chunks/:chunkId
UploadChunk(p, s, up) ==
  /\ Free(p)
  /\ ops' = ops + 1
  /\ IF ~up.hasChunk
     THEN /\ response' = Response("upload", s, 400,
                                   "Form data must include a binary \"chunk\" field.",
                                   <<>>, <<>>, 0, finalized[s], ~store[DirOf(s)].exists)
          /\ UNCHANGED <<store, procs>>
     ELSE /\ mkdir(s)
          /\ procs' = [procs EXCEPT ![p] =
               [IdleProc EXCEPT !.pc = "upload_write", !.op = "upload", !.sid = s,
                                !.up = up, !.late = finalized[s], !.fresh = ~store[DirOf(s)].exists]]
          /\ UNCHANGED response
  /\ UNCHANGED <<registry, finalized>>

\* The name the chunk is stored under.
StoredName(up) ==
  IF up.isFirst
  THEN IF up.hasName THEN basename(up.name) ELSE DefaultInitName
  ELSE IF up.hasName THEN basename(up.name) ELSE DefaultSegmentName(up.chunkId)

\* An init upload that goes on to regenerate the playlist like any other chunk.
UploadWrite_InitRegenerates(p) ==
  /\ procs[p].pc = "upload_write"
  /\ LET s == procs[p].sid
         filename == StoredName(procs[p].up)
     IN  IF ~HasMediaExt(filename)
         THEN /\ RespondError(p, 400, "Only .mp4 or .m4s fragments are accepted")
              /\ UNCHANGED store
         ELSE IF ~store[DirOf(s)].exists
         THEN RespondError(p, 500, "Failed to process video chunk") /\ UNCHANGED store
         ELSE /\ store' = [store EXCEPT ![DirOf(s)] = WithFile(store[DirOf(s)], filename, procs[p].up.buffer)]
              /\ Goto(p, "upload_access")
              /\ UNCHANGED response
  /\ UNCHANGED <<registry, ops, finalized>>

\* An accept-chunk that stores the file whatever its extension.
UploadWrite_AnyExtension(p) ==
  /\ procs[p].pc = "upload_write"
  /\ LET s == procs[p].sid
         filename == StoredName(procs[p].up)
     IN  IF ~store[DirOf(s)].exists
         THEN RespondError(p, 500, "Failed to process video chunk") /\ UNCHANGED store
         ELSE /\ store' = [store EXCEPT ![DirOf(s)] = WithFile(store[DirOf(s)], filename, procs[p].up.buffer)]
              /\ IF procs[p].up.isFirst
                 THEN RespondWith(p, 200, <<>>, filename, 0)
                 ELSE Goto(p, "upload_access") /\ UNCHANGED response
  /\ UNCHANGED <<registry, ops, finalized>>

UploadWrite(p) ==
  /\ procs[p].pc = "upload_write"
  /\ LET s == procs[p].sid
         filename == StoredName(procs[p].up)
     IN  IF ~HasMediaExt(filename)
         THEN /\ RespondError(p, 400,
                   IF procs[p].up.isFirst
                   THEN "Init must be uploaded as .mp4 or .m4s (fragmented MP4 init)"
                   ELSE "Only .mp4 or .m4s fragments are accepted")
              /\ UNCHANGED store
         ELSE IF ~store[DirOf(s)].exists
         THEN RespondError(p, 500, "Failed to process video chunk") /\ UNCHANGED store
         ELSE /\ store' = [store EXCEPT ![DirOf(s)] = WithFile(store[DirOf(s)], filename, procs[p].up.buffer)]
              /\ IF procs[p].up.isFirst
                 THEN RespondWith(p, 200, <<>>, filename, 0)
                 ELSE Goto(p, "upload_access") /\ UNCHANGED response
  /\ UNCHANGED <<registry, ops, finalized>>

UploadAccess(p) ==
  /\ procs[p].pc = "upload_access"
  /\ IF store[DirOf(procs[p].sid)].exists
     THEN Goto(p, "upload_readdir") /\ UNCHANGED response
     ELSE RespondError(p, 404, "Session not found")
  /\ UNCHANGED <<registry, store, ops, finalized>>

\* fs.readdir in generateHLSPlaylist; a failure is rethrown and ends in the
\* handler's catch.
Readdir(p, next) ==
  /\ IF store[DirOf(procs[p].sid)].exists
     THEN /\ procs' = [procs EXCEPT ![p].pc = next,
                                    ![p].listing = store[DirOf(procs[p].sid)].files]
          /\ UNCHANGED response
     ELSE RespondError(p, 500, FailureOf(procs[p].op))
  /\ UNCHANGED <<registry, store, ops, finalized>>

\* Build with the media sequence taken from the server's count of requests
\* instead of the caller's sequence number.
Build_ServerCounter(p, next, sequenceId, isFinal) ==
  /\ procs' = [procs EXCEPT
       ![p].pc = next,
       ![p].dur = ResolveDuration(registry[procs[p].sid]),
       ![p].text = generateHLSPlaylist(procs[p].listing, registry[procs[p].sid],
                                       NatToChars(ops), isFinal)]
  /\ UNCHANGED <<registry, store, ops, finalized, response>>

\* Build with the duration rounded up to whole seconds.
Build_RoundedDuration(p, next, sequenceId, isFinal) ==
  LET metadata == registry[procs[p].sid]
      rounded == [metadata EXCEPT !.segmentDuration = 10 * ((metadata.segmentDuration + 9) \div 10)]
  IN  /\ procs' = [procs EXCEPT
           ![p].pc = next,
           ![p].dur = ResolveDuration(metadata),
           ![p].text = generateHLSPlaylist(procs[p].listing, rounded, sequenceId, isFinal)]
      /\ UNCHANGED <<registry, store, ops, finalized, response>>

\* The rest of generateHLSPlaylist, run when readdir has resolved.
Build(p, next, sequenceId, isFinal) ==
  /\ procs' = [procs EXCEPT
       ![p].pc = next,
       ![p].dur = ResolveDuration(registry[procs[p].sid]),
       ![p].text = generateHLSPlaylist(procs[p].listing, registry[procs[p].sid],
                                       sequenceId, isFinal)]
  /\ UNCHANGED <<registry, store, ops, finalized, response>>

\* fs.writeFile(playlistPath, playlist), first half: the file is opened with
\* flag 'w', which creates it or truncates it.
OpenPlaylist(p, next) ==
  /\ IF store[DirOf(procs[p].sid)].exists
     THEN /\ store' = [store EXCEPT ![DirOf(procs[p].sid)].hasPlaylist = TRUE,
                                    ![DirOf(procs[p].sid)].playlist = <<>>]
          /\ Goto(p, next)
          /\ UNCHANGED response
     ELSE RespondError(p, 500, FailureOf(procs[p].op)) /\ UNCHANGED store
  /\ UNCHANGED <<registry, ops, finalized>>

\* Second half: the text is written at offset 0 of the open file.  What another
\* writer has put behind the end of this text since the truncation stays.
\* Offsets are counted in lines.
Overlay(text, old) == text \o SubSeq(old, Len(text) + 1, Len(old))

FlushPlaylist(p) ==
  IF procs[p].orphan THEN UNCHANGED store
  ELSE store' = [store EXCEPT ![DirOf(procs[p].sid)].playlist =
                   Overlay(procs[p].text, store[DirOf(procs[p].sid)].playlist)]

UploadReaddir(p) == procs[p].pc = "upload_readdir" /\ Readdir(p, "upload_build")

UploadBuild(p) ==
  procs[p].pc = "upload_build" /\ Build(p, "upload_open", procs[p].up.chunkId, FALSE)

UploadOpen(p) == procs[p].pc = "upload_open" /\ OpenPlaylist(p, "upload_flush")

UploadFlush(p) ==
  /\ procs[p].pc = "upload_flush"
  /\ FlushPlaylist(p)
  /\ RespondWith(p, 200, procs[p].up.chunkId, StoredName(procs[p].up),
                 Len(procs[p].up.buffer))
  /\ UNCHANGED <<registry, ops, finalized>>

\* ------------------------------------------- POST /sessions/:sessionId/finalize
\* A finalize that forgets the session whenever it answers 404.
FinalizeSession_ForgetsOnNotFound(p, s) ==
  /\ Free(p)
  /\ ops' = ops + 1
  /\ IF store[DirOf(s)].exists
     THEN /\ procs' = [procs EXCEPT ![p] =
               [IdleProc EXCEPT !.pc = "finalize_readdir", !.op = "finalize", !.sid = s,
                                !.late = finalized[s], !.fresh = ~store[DirOf(s)].exists]]
          /\ UNCHANGED <<response, registry>>
     ELSE /\ response' = Response("finalize", s, 404, "Session not found", <<>>, <<>>, 0,
                                   finalized[s], ~store[DirOf(s)].exists)
          /\ registry' = [registry EXCEPT ![s] = NoMetadata]
          /\ UNCHANGED procs
  /\ UNCHANGED <<store, finalized>>

FinalizeSession(p, s) ==
  /\ Free(p)
  /\ ops' = ops + 1
  /\ IF store[DirOf(s)].exists
     THEN /\ procs' = [procs EXCEPT ![p] =
               [IdleProc EXCEPT !.pc = "finalize_readdir", !.op = "finalize", !.sid = s,
                                !.late = finalized[s], !.fresh = ~store[DirOf(s)].exists]]
          /\ UNCHANGED response
     ELSE /\ response' = Response("finalize", s, 404, "Session not found", <<>>, <<>>, 0,
                                   finalized[s], ~store[DirOf(s)].exists)
          /\ UNCHANGED procs
  /\ UNCHANGED <<registry, store, finalized>>

FinalizeReaddir(p) == procs[p].pc = "finalize_readdir" /\ Readdir(p, "finalize_build")

FinalizeBuild(p) ==
  procs[p].pc = "finalize_build" /\ Build(p, "finalize_open", <<"0">>, TRUE)

FinalizeOpen(p) == procs[p].pc = "finalize_open" /\ OpenPlaylist(p, "finalize_flush")

FinalizeFlush(p) ==
  /\ procs[p].pc = "finalize_flush"
  /\ FlushPlaylist(p)
  /\ Goto(p, "finalize_cleanup")
  /\ UNCHANGED <<registry, ops, finalized, response>>

\* A finalize that answers without deleting the registry entry.
FinalizeCleanup_KeepsEntry(p) ==
  /\ procs[p].pc = "finalize_cleanup"
  /\ finalized' = [finalized EXCEPT ![procs[p].sid] = TRUE]
  /\ Respond(p, 200)
  /\ UNCHANGED <<registry, store, ops>>

\* A finalize that deletes the session directory along with the registry entry.
FinalizeCleanup_RemovesDirectory(p) ==
  /\ procs[p].pc = "finalize_cleanup"
  /\ registry' = [registry EXCEPT ![procs[p].sid] = NoMetadata]
  /\ store' = [store EXCEPT ![DirOf(procs[p].sid)] = NoDir]
  /\ finalized' = [finalized EXCEPT ![procs[p].sid] = TRUE]
  /\ Respond(p, 200)
  /\ UNCHANGED ops

\* cleanupSessionMetadata and the response.
FinalizeCleanup(p) ==
  /\ procs[p].pc = "finalize_cleanup"
  /\ registry' = [registry EXCEPT ![procs[p].sid] = NoMetadata]
  /\ finalized' = [finalized EXCEPT ![procs[p].sid] = TRUE]
  /\ Respond(p, 200)
  /\ UNCHANGED <<store, ops>>

\* ------------------------------------------ GET /sessions/:sessionId/playlist.m3u8
\* fs.access(playlistPath) and its 404.
GetPlaylist(p, s) ==
  /\ Free(p)
  /\ ops' = ops + 1
  /\ IF store[DirOf(s)].hasPlaylist
     THEN /\ procs' = [procs EXCEPT ![p] =
               [IdleProc EXCEPT !.pc = "playlist_read", !.op = "playlist", !.sid = s,
                                !.late = finalized[s], !.fresh = ~store[DirOf(s)].exists]]
          /\ UNCHANGED response
     ELSE /\ response' = Response("playlist", s, 404, "Playlist not found", <<>>, <<>>, 0,
                                   finalized[s], ~store[DirOf(s)].exists)
          /\ UNCHANGED procs
  /\ UNCHANGED <<registry, store, finalized>>

\* fs.readFile(playlistPath, 'utf8') and the response: the text the file has
\* at that moment, or the 500 of the catch when the file is gone.
ReadPlaylist(p) ==
  /\ procs[p].pc = "playlist_read"
  /\ IF store[DirOf(procs[p].sid)].hasPlaylist
     THEN /\ response' = [Response("playlist", procs[p].sid, 200, "", <<>>, <<>>, 0,
                                    procs[p].late, procs[p].fresh)
                           EXCEPT !.playlist = store[DirOf(procs[p].sid)].playlist]
          /\ procs' = [procs EXCEPT ![p] = IdleProc]
     ELSE RespondError(p, 500, FailureOf("playlist"))
  /\ UNCHANGED <<registry, store, ops, finalized>>

\* ------------------------------------------------------------------ startup
\* The registry entry loadSessionsFromFilesystem makes for a session directory.
LoadedMetadata(dir) ==
  LET targetDurationMatch == IF dir.hasPlaylist THEN TargetDurationMatch(dir.playlist) ELSE <<>>
  IN  IF targetDurationMatch # <<>>
      THEN Metadata(parseInt(targetDurationMatch))
      ELSE Metadata(Seconds(DEFAULT_SEGMENT_DURATION))

\* A reconciliation that gives up at the first directory, in the order s1, s2,
\* whose playlist cannot be read.
loadSessions_StopsAtFailure ==
  [s \in Ids |->
     IF /\ IsEntryOfBaseDir(s)
        /\ store[s].exists
        /\ \A t \in Sessions :
             (store[t].exists /\ (t = s \/ (t = "s1" /\ s = "s2"))) => store[t].hasPlaylist
     THEN LoadedMetadata(store[s])
     ELSE NoMetadata]

\* A reconciliation that passes over the directories of finalized sessions:
\* those whose playlist ends with the end-of-stream tag.
loadSessions_SkipsFinalized ==
  [s \in Ids |->
     IF /\ IsEntryOfBaseDir(s)
        /\ store[s].exists
        /\ (store[s].playlist = <<>>
              \/ store[s].playlist[Len(store[s].playlist)] # EndListLine)
     THEN LoadedMetadata(store[s])
     ELSE NoMetadata]

loadSessionsFromFilesystem ==
  [s \in Ids |->
     IF IsEntryOfBaseDir(s) /\ store[s].exists THEN LoadedMetadata(store[s]) ELSE NoMetadata]

\* The process dies and is started again: the registry is rebuilt from the
\* chunk store and every request in flight is lost.
Restart ==
  /\ ops < MaxOps
  /\ ops' = ops + 1
  /\ registry' = loadSessionsFromFilesystem
  /\ procs' = [p \in Procs |-> IdleProc]
  /\ response' = NoResponse
  /\ UNCHANGED <<store, finalized>>

\* -------------------------------------------------------------- environment
\* A session directory is deleted out of band.  A playlist that a handler
\* holds open stays open, unlinked.
RemoveDir(s) ==
  /\ ops < MaxOps
  /\ store[DirOf(s)].exists
  /\ ops' = ops + 1
  /\ store' = [store EXCEPT ![DirOf(s)] = NoDir]
  /\ procs' = [p \in Procs |->
       IF DirOf(procs[p].sid) = DirOf(s) /\ procs[p].pc \in {"upload_flush", "finalize_flush"}
       THEN [procs[p] EXCEPT !.orphan = TRUE] ELSE procs[p]]
  /\ UNCHANGED <<registry, finalized, response>>

\* One step of the handlers when requests are taken by the slots of PP, name
\* sessions of SS, and uploads are drawn from UU and create bodies from BB.
\* What uuidv4 returns is a plain name.
Serve(PP, SS, UU, BB) ==
  \/ \E p \in PP, requested \in SS \cup {NoId}, uuid \in SS \cap Sessions, body \in BB :
       CreateSession(p, requested, uuid, body)
  \/ \E p \in PP : CreateValidate(p)
  \/ \E p \in PP, s \in SS, up \in UU : UploadChunk(p, s, up)
  \/ \E p \in PP : UploadWrite(p)
  \/ \E p \in PP : UploadAccess(p)
  \/ \E p \in PP : UploadReaddir(p)
  \/ \E p \in PP : UploadBuild(p)
  \/ \E p \in PP : UploadOpen(p)
  \/ \E p \in PP : UploadFlush(p)
  \/ \E p \in PP, s \in SS : FinalizeSession(p, s)
  \/ \E p \in PP : FinalizeReaddir(p)
  \/ \E p \in PP : FinalizeBuild(p)
  \/ \E p \in PP : FinalizeOpen(p)
  \/ \E p \in PP : FinalizeFlush(p)
  \/ \E p \in PP : FinalizeCleanup(p)

\* The handlers, process restarts and out-of-band deletions.
Step(PP, SS, UU, BB) ==
  \/ Serve(PP, SS, UU, BB)
  \/ Restart
  \/ \E s \in SS : RemoveDir(s)

\* The read-playlist requests taken by the slots of PP for sessions of SS.
Read(PP, SS) ==
  \/ \E p \in PP, s \in SS : GetPlaylist(p, s)
  \/ \E p \in PP : ReadPlaylist(p)

Next == Step(Procs, Sessions, Uploads, Bodies) \/ Read(Procs, Sessions)

Spec == Init /\ [][Next]_vars

\* Numbered fragments only, on one session: the uploads whose numeric order
\* differs from their lexicographic order and from their upload order.
OrderedUploads ==
  { Upload(<<"1", "0">>, TRUE, chunk10_mp4, FALSE, TRUE, <<1>>),
    Upload(<<"2">>, TRUE, chunk2_mp4, FALSE, TRUE, <<1>>),
    Upload(<<"1">>, TRUE, chunk1_mp4, FALSE, TRUE, <<1>>) }

NextUploads == Step(Procs, {"s1"}, OrderedUploads, {Num(80), Num(45)})

SpecUploads == Init /\ [][NextUploads]_vars

\* The server in steady operation: no restart, nothing deleted out of band.
NextServe == Serve(Procs, Sessions, Uploads, Bodies)

SpecServe == Init /\ [][NextServe]_vars

\* A client that sends one request at a time and waits for the answer: only
\* the first request slot is ever taken.
OneAtATime == {"p1"}

\* The uploads of such a client to one session: init fragments with and
\* without a declared name, fragment 0 with two different payloads, a fragment
\* with an upper-case extension, a fragment with no declared name, and text
\* files sent as fragment and as init.
ClientUploads ==
  { Upload(<<"0">>, TRUE, init_0_mp4, TRUE, TRUE, <<1>>),
    Upload(<<"0">>, FALSE, <<>>, TRUE, TRUE, <<1>>),
    Upload(<<"0">>, TRUE, chunk00000_mp4, FALSE, TRUE, <<1, 2>>),
    Upload(<<"0">>, TRUE, chunk00000_mp4, FALSE, TRUE, <<3>>),
    Upload(<<"1">>, TRUE, chunk1_MP4, FALSE, TRUE, <<1>>),
    Upload(<<"3">>, FALSE, <<>>, FALSE, TRUE, <<1>>),
    Upload(<<"4">>, TRUE, notes_txt, FALSE, TRUE, <<1>>),
    Upload(<<"0">>, TRUE, notes_txt, TRUE, TRUE, <<1>>) }

ClientBodies == {Num(40), Num(45)}

\* The client's budget is one request longer than MaxOps, so that a create,
\* an init upload, a fragment upload and a finalize fit in one behaviour.
ClientOps == MaxOps + 1

InitClient ==
  /\ registry = [s \in Ids |-> NoMetadata]
  /\ store = [s \in Ids |-> NoDir]
  /\ procs = [p \in Procs |-> IdleProc]
  /\ ops = MaxOps - ClientOps
  /\ finalized = [s \in Ids |-> FALSE]
  /\ response = NoResponse

NextClient == Serve(OneAtATime, {"s1"}, ClientUploads, ClientBodies)

SpecClient == InitClient /\ [][NextClient]_vars

\* Startup after one client has worked on two sessions, with restarts that
\* may cut a request short and directories deleted out of band.
StartupUploads ==
  { Upload(<<"0">>, TRUE, init_0_mp4, TRUE, TRUE, <<1>>),
    Upload(<<"1">>, TRUE, chunk1_mp4, FALSE, TRUE, <<1>>) }

NextStartup == Step(OneAtATime, Sessions, StartupUploads, {Num(80)})

SpecStartup == Init /\ [][NextStartup]_vars

\* ------------------------------------------------------ reading a playlist
\* The lines of a playlist text that are not tags: its fragment entries.
IsTagLine(line) ==
  line # <<>> /\ Head(line) \in
    {"#EXTM3U", "#EXT-X-VERSION:7", "#EXT-X-PLAYLIST-TYPE:EVENT", TargetDurationTag,
     "#EXT-X-MEDIA-SEQUENCE:", "#EXT-X-MAP:URI=", "#EXTINF:", "#EXT-X-ENDLIST"}

IsEntryLine(line) == line # <<>> /\ ~IsTagLine(line)

Listed(text) == SelectSeq(text, IsEntryLine)

EndListCount(text) == Cardinality({i \in 1..Len(text) : text[i] = EndListLine})

EndsWithEndList(text) == text # <<>> /\ text[Len(text)] = EndListLine

MediaSequenceOf(text) ==
  LET hits == {i \in 1..Len(text) :
                 text[i] # <<>> /\ Head(text[i]) = "#EXT-X-MEDIA-SEQUENCE:"}
  IN  IF hits = {} THEN <<"?">> ELSE Tail(text[CHOOSE i \in hits : \A k \in hits : i <= k])

\* The duration a playlist declares: the whole decimal number of its first
\* target-duration tag, in tenths; -1 when it declares none.
DeclaredDuration(dir) ==
  LET text == dir.playlist
      hits == {i \in 1..Len(text) : text[i] # <<>> /\ Head(text[i]) = TargetDurationTag}
      d == IF hits = {} THEN [nan |-> TRUE, v |-> 0]
           ELSE parseFloat(Str(Tail(text[CHOOSE i \in hits : \A k \in hits : i <= k])))
  IN  IF ~dir.hasPlaylist \/ d.nan THEN 0 - 1 ELSE d.v

\* The handler in slot p has generated its playlist text and not yet answered.
Built(p) ==
  procs[p].pc \in {"upload_open", "upload_flush", "finalize_open", "finalize_flush",
                   "finalize_cleanup"}

\* The handler in slot p has listed the directory and not yet answered.
Listing(p) == Built(p) \/ procs[p].pc \in {"upload_build", "finalize_build"}

SequenceIdOf(p) == IF procs[p].op = "finalize" THEN <<"0">> ELSE procs[p].up.chunkId

\* Slot p takes a step.
Moved(p) == procs'[p] # procs[p]

\* Slot p answers its request in this step.
Answers(p) == procs[p].pc # "idle" /\ procs'[p].pc = "idle" /\ response'.op = procs[p].op

\* ------------------------------------------------------------------ claims

C2_EntriesInNumericOrder ==
  \A s \in Sessions :
    LET entries == Listed(store[s].playlist)
    IN  \A i, j \in 1..Len(entries) :
          i < j => SegmentIndex(entries[i]) <= SegmentIndex(entries[j])

\* Fragments 10, 2, 1 were uploaded in that order and the playlist lists 1, 2, 10.
C2_Witness ==
  /\ store["s1"].files = <<chunk10_mp4, chunk2_mp4, chunk1_mp4>>
  /\ Listed(store["s1"].playlist) = <<chunk1_mp4, chunk2_mp4, chunk10_mp4>>

\* C3: when a finalize has written the playlist, the persisted playlist holds
\* the end-of-stream tag exactly once, as its last line, and media sequence 0;
\* when it answers, the registry has no entry for the session; and the playlist
\* persisted when an accept-chunk answers holds no end-of-stream tag.
C3_FinalizePersistsEndList ==
  [][\A p \in Procs :
       LET dir == store'[procs[p].sid]
       IN  /\ (procs[p].pc = "finalize_flush" /\ procs'[p].pc = "finalize_cleanup")
                => /\ EndListCount(dir.playlist) = 1
                   /\ EndsWithEndList(dir.playlist)
                   /\ MediaSequenceOf(dir.playlist) = <<"0">>
           /\ (procs[p].pc = "finalize_cleanup" /\ Answers(p))
                => ~registry'[procs[p].sid].present
           /\ (procs[p].pc = "upload_flush" /\ Answers(p))
                => EndListCount(dir.playlist) = 0]_vars

\* C4: a finalize that arrives after a finalize of the same session id has
\* succeeded is answered 404.
C4_SecondFinalizeNotFound ==
  (response.op = "finalize" /\ response.late) => response.status = 404

\* C5: at startup every session directory gets a registry entry whose duration
\* is the one its playlist declares, or the default when the playlist is
\* absent or declares none.
C5_RestartRecoversDuration ==
  [][Restart =>
       \A s \in Sessions :
         store[s].exists =>
           registry'[s] = Metadata(IF DeclaredDuration(store[s]) >= 0
                                   THEN DeclaredDuration(store[s])
                                   ELSE Seconds(DEFAULT_SEGMENT_DURATION))]_vars

\* The segmentDuration of a create body is a number that is not positive, or a
\* string that is no number.
NonPositiveOrNonNumeric(body) ==
  \/ body.k = "num" /\ body.n <= 0
  \/ body.k = "str" /\ parseFloat(body).nan

\* C6: a create whose segmentDuration is non-positive or non-numeric is
\* answered 400 and leaves the registry as it was.
C6_CreateRejectsBadDuration ==
  [][\A p \in Procs :
       (procs[p].pc = "create_validate" /\ Answers(p)
          /\ NonPositiveOrNonNumeric(procs[p].body))
       => (response'.status = 400 /\ registry' = registry)]_vars

\* C7: no two accept-chunk or finalize operations of one session id are past
\* their directory listing and unanswered at the same time.
C7_OneInFlightPerSession ==
  \A p, q \in Procs :
    (p # q /\ Listing(p) /\ Listing(q)) => procs[p].sid # procs[q].sid

\* The fragments of a listing that the generator numbers.
NumberedFragments(files) == {files[i] : i \in {k \in 1..Len(files) : IsSegmentName(files[k])}}

\* C8: when no request is in flight, a persisted playlist lists every numbered
\* fragment of its session directory, and it ends with the end-of-stream tag
\* if a finalize of the session has succeeded.
C8_QuiescentPlaylistComplete ==
  (\A p \in Procs : procs[p].pc = "idle") =>
    \A s \in Sessions :
      store[s].hasPlaylist =>
        LET entries == Listed(store[s].playlist)
        IN  /\ NumberedFragments(store[s].files) \subseteq {entries[i] : i \in 1..Len(entries)}
            /\ finalized[s] => EndsWithEndList(store[s].playlist)

\* C9: once a finalize of a session id has succeeded, no accept-chunk request
\* that arrives afterwards changes the session directory or its playlist.
C9_ReadOnlyAfterFinalize ==
  [][\A p \in Procs :
       (procs[p].op = "upload" /\ procs[p].late /\ Moved(p))
       => store'[procs[p].sid] = store[procs[p].sid]]_vars

\* C10: a well-formed accept-chunk request that names a session id whose
\* directory does not exist is answered 404.
C10_UploadToMissingSession ==
  (response.op = "upload" /\ response.fresh /\ response.status # 400)
    => response.status = 404

\* C11: a finalize request for a session id whose directory does not exist is
\* answered 404 and changes neither the chunk store nor the registry; and a
\* finalize that fails after that, while listing the directory or writing the
\* playlist, leaves the registry as it was.
C11_FailedFinalizeKeepsRegistry ==
  [][/\ \A s \in Sessions :
          ((\E p \in Procs : FinalizeSession(p, s)) /\ ~store[s].exists)
          => /\ response'.op = "finalize" /\ response'.sid = s /\ response'.status = 404
             /\ store' = store
             /\ registry' = registry
     /\ \A p \in Procs :
          (procs[p].op = "finalize" /\ Answers(p) /\ response'.status # 200)
          => registry' = registry]_vars

\* A finalize of a session that is registered but has no directory was
\* answered 404 and the registry entry is still there.
C11_Witness ==
  /\ response.op = "finalize" /\ response.status = 404 /\ response.fresh
  /\ registry[response.sid].present
  /\ ~store[response.sid].exists

\* A file name that ends in .mp4 or .m4s, in any letter case.
RecognizedExtension(f) ==
  LET n == Len(f)
  IN  /\ n >= 4
      /\ f[n - 3] = "."
      /\ f[n - 2] \in {"m", "M"}
      /\ \/ f[n - 1] \in {"p", "P"} /\ f[n] = "4"
         \/ f[n - 1] = "4" /\ f[n] \in {"s", "S"}

\* The file names of a directory.
Names(dir) == {dir.files[i] : i \in 1..Len(dir.files)}

\* C12: an upload, init or not, whose resolved file name has no recognized
\* extension is answered 400, stores no file and leaves the playlist as it
\* was; and an init upload that declares no file name is stored under the
\* default name, which passes the same extension check.
C12_BadExtensionRejected ==
  [][\A p \in Procs :
       LET s == procs[p].sid
           up == procs[p].up
           name == IF up.hasName THEN basename(up.name)
                   ELSE IF up.isFirst THEN DefaultInitName
                   ELSE DefaultSegmentName(up.chunkId)
       IN  (procs[p].pc = "upload_write" /\ Moved(p)) =>
             /\ ~RecognizedExtension(name)
                  => /\ Answers(p) /\ response'.status = 400
                     /\ store'[s] = store[s]
             /\ (up.isFirst /\ ~up.hasName)
                  => /\ RecognizedExtension(DefaultInitName)
                     /\ Answers(p) /\ response'.status = 200
                     /\ response'.filename = DefaultInitName
                     /\ DefaultInitName \in Names(store'[s])]_vars

\* A text file sent as a fragment was refused while the session already had
\* a fragment and a playlist, and neither changed.
C12_Witness ==
  /\ response.op = "upload" /\ response.status = 400
  /\ response.error = "Only .mp4 or .m4s fragments are accepted"
  /\ store[response.sid].hasPlaylist
  /\ Listed(store[response.sid].playlist) # <<>>
  /\ notes_txt \notin Names(store[response.sid])

\* The tags of the playlist header.
HeaderTags ==
  {"#EXTM3U", "#EXT-X-VERSION:7", "#EXT-X-PLAYLIST-TYPE:EVENT", TargetDurationTag,
   "#EXT-X-MEDIA-SEQUENCE:"}

\* The lines of a text that start with the given tag.
TagLines(text, tag) == SelectSeq(text, LAMBDA line : line # <<>> /\ Head(line) = tag)

\* The text is made of header tags (and blank lines) only, and its one
\* target-duration tag spells exactly the number d.
HeaderOnly(text, d) ==
  /\ \A i \in 1..Len(text) : text[i] = <<>> \/ Head(text[i]) \in HeaderTags
  /\ \A tag \in HeaderTags : Len(TagLines(text, tag)) = 1
  /\ LET digits == Tail(TagLines(text, TargetDurationTag)[1])
     IN  /\ \A i \in 1..Len(digits) : digits[i] \in Digits \cup {"."}
         /\ ~parseFloat(Str(digits)).nan
         /\ parseFloat(Str(digits)).v = d

\* C13: a create with a valid duration d > 0 registers exactly d, and a
\* playlist generated for a registered session whose directory holds no file
\* is made of header tags only, with a target-duration tag that carries
\* exactly the registered d: no EXTINF line, no init-map tag and, unless the
\* generation is the finalize's, no end-of-stream tag.
C13_EmptySessionPlaylist ==
  [][\A p \in Procs :
       LET s == procs[p].sid
           text == procs'[p].text
       IN  /\ (procs[p].pc = "create_validate" /\ Answers(p)
                 /\ procs[p].body.k = "num" /\ procs[p].body.n > 0)
                => /\ response'.status = 200
                   /\ registry'[s] = Metadata(procs[p].body.n)
           /\ (procs[p].pc \in {"upload_build", "finalize_build"}
                 /\ procs'[p].pc \in {"upload_open", "finalize_open"}
                 /\ procs[p].listing = <<>> /\ registry[s].present)
                => /\ HeaderOnly(SelectSeq(text, LAMBDA line : line # EndListLine),
                                 registry[s].segmentDuration)
                   /\ EndListCount(text) = (IF procs[p].pc = "finalize_build" THEN 1 ELSE 0)]_vars

\* An accept-chunk has generated the playlist of a session registered with
\* duration 4.5 from an empty directory listing.
C13_Witness ==
  \E p \in Procs :
    /\ procs[p].pc = "upload_open"
    /\ procs[p].listing = <<>>
    /\ procs[p].dur = 45
    /\ registry[procs[p].sid] = Metadata(45)
    /\ Len(procs[p].text) = 6

\* The playlist of the scenario: duration 4, init fragment init_0.mp4 and the
\* one fragment chunk00000.mp4 uploaded with index 0.
ScenarioPlaylist ==
  << <<"#EXTM3U">>,
     <<"#EXT-X-VERSION:7">>,
     <<"#EXT-X-PLAYLIST-TYPE:EVENT">>,
     <<"#EXT-X-TARGETDURATION:", "4">>,
     <<"#EXT-X-MEDIA-SEQUENCE:", "0">>,
     <<"#EXT-X-MAP:URI=", "\"", "i", "n", "i", "t", "_", "0", ".", "m", "p", "4", "\"">>,
     <<>>,
     <<"#EXTINF:", "4", ".", "0", "0", "0", ",">>,
     <<"c", "h", "u", "n", "k", "0", "0", "0", "0", "0", ".", "m", "p", "4">> >>

\* The session is registered with duration 4 and holds init_0.mp4 and
\* chunk00000.mp4, uploaded in that order.
InScenario(s) ==
  /\ registry[s] = Metadata(40)
  /\ store[s].files = <<init_0_mp4, chunk00000_mp4>>

\* C14: for a client that sends one request at a time.  When the upload of
\* fragment 0 as chunk00000.mp4 is answered in a session created with duration
\* 4 that holds init_0.mp4, the persisted playlist has target duration 4, the
\* init-map tag of init_0.mp4 and the one entry EXTINF:4.000 / chunk00000.mp4;
\* when the finalize of that session is answered the playlist is the same
\* text followed by the end-of-stream tag and the registry no longer holds
\* the session id.
C14_CreateInitChunkFinalize ==
  [][\A p \in Procs :
       LET s == procs[p].sid
       IN  /\ (procs[p].pc = "upload_flush" /\ Answers(p) /\ InScenario(s)
                 /\ procs[p].up.chunkId = <<"0">> /\ procs[p].up.name = chunk00000_mp4)
                => /\ response'.status = 200
                   /\ store'[s].playlist = ScenarioPlaylist
           /\ (procs[p].pc = "finalize_cleanup" /\ Answers(p) /\ InScenario(s))
                => /\ response'.status = 200
                   /\ store'[s].playlist = ScenarioPlaylist \o <<EndListLine>>
                   /\ store'[s].files = <<init_0_mp4, chunk00000_mp4>>
                   /\ ~registry'[s].present]_vars

\* The four requests of the scenario have been answered: the session is
\* finalized, unregistered, and its playlist is the scenario's with the
\* end-of-stream tag.
C14_Witness ==
  /\ response.op = "finalize" /\ response.status = 200 /\ response.sid = "s1"
  /\ finalized["s1"]
  /\ ~registry["s1"].present
  /\ store["s1"].files = <<init_0_mp4, chunk00000_mp4>>
  /\ store["s1"].playlist = ScenarioPlaylist \o <<EndListLine>>

\* The directory holds a file of that name with those bytes.
Holds(dir, f, buffer) ==
  \E i \in 1..Len(dir.files) : dir.files[i] = f /\ dir.data[i] = buffer

\* The fragment entries of a playlist, as a set.
Entries(text) == {Listed(text)[i] : i \in 1..Len(Listed(text))}

\* C15: for a client that sends one request at a time, when a non-init
\* accept-chunk with declared index i is answered 200 the response reports the
\* name the chunk is stored under and the size of its payload, and the
\* persisted playlist has media sequence i and an entry for that name.
C15_AcceptedChunkListed ==
  [][\A p \in Procs :
       LET s == procs[p].sid
           up == procs[p].up
       IN  (procs[p].pc = "upload_flush" /\ Answers(p) /\ response'.status = 200)
           => /\ response'.id = up.chunkId
              /\ Holds(store'[s], response'.filename, up.buffer)
              /\ response'.size = Len(up.buffer)
              /\ MediaSequenceOf(store'[s].playlist) = up.chunkId
              /\ response'.filename \in Entries(store'[s].playlist)]_vars

\* The name of the numbered-fragment layout for index digits i: "chunk", the
\* index padded with zeros to five digits, and a recognized extension.
IsLayoutNameFor(f, i) ==
  \E ext \in {<<".", "m", "p", "4">>, <<".", "m", "4", "s">>} :
    f = <<"c", "h", "u", "n", "k">> \o padStart(i, 5) \o ext

\* C16: when a non-init accept-chunk that declares no file name and has
\* index i is answered 200, the chunk is stored under the zero-padded name
\* chunkNNNNN.<ext> of index i and the regenerated playlist lists that name.
C16_DefaultNameIsNumbered ==
  [][\A p \in Procs :
       LET s == procs[p].sid
           up == procs[p].up
       IN  (procs[p].pc = "upload_flush" /\ Answers(p) /\ response'.status = 200
              /\ ~up.hasName)
           => /\ IsLayoutNameFor(response'.filename, up.chunkId)
              /\ Holds(store'[s], response'.filename, up.buffer)
              /\ response'.filename \in Entries(store'[s].playlist)]_vars

\* The init-map line that names file f.
MapLine(f) == <<"#EXT-X-MAP:URI=", "\"">> \o f \o <<"\"">>

\* The lines of a playlist, as a set.
Lines(text) == {text[i] : i \in 1..Len(text)}

\* The init fragments a directory holds: the names init uploads are stored under.
InitsIn(dir) == Names(dir) \cap {init_0_mp4, DefaultInitName}

\* The handler in slot p completes the write of its playlist in this step.
PersistsPlaylist(p) ==
  \/ procs[p].pc = "upload_flush" /\ Answers(p) /\ response'.status = 200
  \/ procs[p].pc = "finalize_flush" /\ procs'[p].pc = "finalize_cleanup"

C18_CreateReusesId ==
  [][/\ \A p \in Procs, requested \in Sessions \cup {NoId}, uuid \in Sessions,
          body \in Bodies \cup ClientBodies :
          CreateSession(p, requested, uuid, body)
          => LET s == procs'[p].sid
             IN  /\ requested # NoId => s = requested
                 /\ requested = NoId => (~store[s].exists /\ ~registry[s].present)
                 /\ store'[s] = [store[s] EXCEPT !.exists = TRUE]
                 /\ \A t \in Sessions \ {s} : store'[t] = store[t]
                 /\ registry' = registry
     /\ \A p \in Procs :
          LET s == procs[p].sid
              body == procs[p].body
          IN  (procs[p].pc = "create_validate" /\ Answers(p) /\ registry[s].present
                 /\ body.k = "num" /\ body.n > 0)
              => /\ response'.status = 200 /\ response'.sid = s
                 /\ registry' = [registry EXCEPT ![s] = Metadata(body.n)]
                 /\ store' = store]_vars

\* A session that holds a fragment and a playlist declaring 4 seconds was
\* created again with 4.5 seconds: the entry says 4.5 and the files are there.
C18_Witness ==
  /\ response.op = "create" /\ response.status = 200
  /\ registry[response.sid] = Metadata(45)
  /\ chunk00000_mp4 \in Names(store[response.sid])
  /\ DeclaredDuration(store[response.sid]) = 40

\* C19: a restart gives every session directory a registry entry, whatever
\* the state of the other directories: the default duration when its playlist
\* is missing or declares no duration, and no entry for ids without a
\* directory; after it every request slot is free to serve.
C19_StartupNeverAborts ==
  [][Restart =>
       /\ \A s \in Sessions :
            /\ store[s].exists <=> registry'[s].present
            /\ (store[s].exists /\ DeclaredDuration(store[s]) < 0)
                 => registry'[s] = Metadata(Seconds(DEFAULT_SEGMENT_DURATION))
       /\ store' = store
       /\ \A p \in Procs : procs'[p].pc = "idle"]_vars

\* After a restart with nothing registered before it: one directory has no
\* playlist, the other has one that declares 5 seconds, and both have an
\* entry with 5 seconds.
C19_Witness ==
  /\ response = NoResponse
  /\ store["s1"].exists /\ ~store["s1"].hasPlaylist
  /\ store["s2"].exists /\ DeclaredDuration(store["s2"]) = 50
  /\ registry["s1"] = Metadata(50)
  /\ registry["s2"] = Metadata(50)

\* The accept-chunk in slot p repeats the request answered last: the last
\* response is the 200 of a non-init accept for the same session, chunk id and
\* stored name.
IsRetry(p) ==
  /\ procs[p].op = "upload" /\ ~procs[p].up.isFirst
  /\ response.op = "upload" /\ response.status = 200
  /\ response.sid = procs[p].sid
  /\ response.id = procs[p].up.chunkId
  /\ response.filename = StoredName(procs[p].up)

\* C20: for a client that sends one request at a time, accepting again the
\* non-init chunk that was accepted last (same session, index, file name and
\* bytes) leaves directory and playlist as they were.  Step by step: the
\* write of the same bytes changes nothing in the directory; the text the
\* retry generates is the playlist that is persisted; and when the retry is
\* answered 200 that text is the persisted playlist again, the files being
\* untouched.
C20_RetryIsIdempotent ==
  [][\A p \in Procs :
       LET s == procs[p].sid
           up == procs[p].up
       IN  IsRetry(p) =>
             /\ (procs[p].pc = "upload_write" /\ Moved(p)
                   /\ Holds(store[s], StoredName(up), up.buffer))
                  => store'[s] = store[s]
             /\ (procs[p].pc = "upload_build" /\ Moved(p))
                  => procs'[p].text = store[s].playlist
             /\ (procs[p].pc = "upload_flush" /\ Moved(p))
                  => /\ response'.status = 200
                     /\ store'[s] = [store[s] EXCEPT !.playlist = procs[p].text]]_vars

\* A retry of the accept answered last has written the same bytes again and
\* generated a text equal to the persisted playlist, which lists the fragment.
C20_Witness ==
  /\ procs["p1"].pc = "upload_open"
  /\ IsRetry("p1")
  /\ Holds(store["s1"], chunk00000_mp4, procs["p1"].up.buffer)
  /\ store["s1"].files = <<chunk00000_mp4>>
  /\ procs["p1"].text = store["s1"].playlist
  /\ chunk00000_mp4 \in Entries(store["s1"].playlist)

\* ------------------------------------------- repair after an interrupted accept
\* One client whose accepts may be cut short by a restart of the process:
\* numbered fragments under declared names and one fragment with no declared
\* name.
RepairUploads ==
  { Upload(<<"1">>, TRUE, chunk1_mp4, FALSE, TRUE, <<1>>),
    Upload(<<"2">>, TRUE, chunk2_mp4, FALSE, TRUE, <<1>>),
    Upload(<<"3">>, FALSE, <<>>, FALSE, TRUE, <<1>>) }

NextRepair == Step(OneAtATime, {"s1"}, RepairUploads, {Num(40)})

SpecRepair == Init /\ [][NextRepair]_vars

\* The chunk files of a directory that no entry of its playlist names: files
\* an accept wrote without the playlist being updated for them.
Unlisted(dir) ==
  IF dir.hasPlaylist THEN Names(dir) \ Entries(dir.playlist) ELSE Names(dir)

\* C21: when chunk files were written but the playlist was not updated (the
\* accept was cut between the file write and the playlist write), the next
\* accept-chunk answered 200 and the next finalize persist a playlist that
\* lists every chunk file of the directory, the files left behind included.
C21_NextWriteListsLeftovers ==
  [][\A p \in Procs :
       LET s == procs[p].sid
       IN  PersistsPlaylist(p) => Unlisted(store'[s]) = {}]_vars

\* ------------------------------------------------ concurrent requests, one session
\* C23: a finalize removes from the registry the entry its playlist was
\* generated from: when it removes the entry and answers, the duration the
\* entry resolves to is the duration of the text it persisted.  (In any serial
\* order of a create and a finalize either the playlist carries the created
\* duration or the created entry is still in the registry.)
C23_FinalizeRemovesWhatItRead ==
  [][\A p \in Procs :
       (procs[p].pc = "finalize_cleanup" /\ Answers(p))
         => ResolveDuration(registry[procs[p].sid]) = procs[p].dur]_vars

\* ------------------------------------------------------ fragment index identity
chunk00001_mp4 == <<"c", "h", "u", "n", "k", "0", "0", "0", "0", "1", ".", "m", "p", "4">>
chunk1_m4s == <<"c", "h", "u", "n", "k", "1", ".", "m", "4", "s">>

\* One client that uploads fragment 1 under names that differ in zero-padding
\* or extension only, and fragment 2.
IndexUploads ==
  { Upload(<<"1">>, TRUE, chunk1_mp4, FALSE, TRUE, <<1>>),
    Upload(<<"1">>, TRUE, chunk00001_mp4, FALSE, TRUE, <<2>>),
    Upload(<<"1">>, TRUE, chunk1_m4s, FALSE, TRUE, <<3>>),
    Upload(<<"2">>, TRUE, chunk2_mp4, FALSE, TRUE, <<1>>) }

NextIndex == Serve(OneAtATime, {"s1"}, IndexUploads, {Num(40)})

SpecIndex == Init /\ [][NextIndex]_vars

\* C24: no generated playlist has two fragment entries with the same integer
\* index.
C24_IndexIsUnique ==
  \A p \in Procs :
    Built(p) =>
      LET entries == Listed(procs[p].text)
      IN  \A i, j \in 1..Len(entries) :
            SegmentIndex(entries[i]) = SegmentIndex(entries[j]) => i = j

\* ------------------------------------------------------------ the init-map tag
header_mp4 == <<"h", "e", "a", "d", "e", "r", ".", "m", "p", "4">>

\* One client that uploads init fragments under two declared names and one
\* numbered fragment.
InitUploads ==
  { Upload(<<"0">>, TRUE, init_0_mp4, TRUE, TRUE, <<1>>),
    Upload(<<"0">>, TRUE, header_mp4, TRUE, TRUE, <<1>>),
    Upload(<<"1">>, TRUE, chunk1_mp4, FALSE, TRUE, <<1>>) }

NextInit == Serve(OneAtATime, {"s1"}, InitUploads, {Num(40)})

SpecInit == Init /\ [][NextInit]_vars

\* The init-map lines of a playlist, in order.
MapLines(text) ==
  SelectSeq(text, LAMBDA line : line # <<>> /\ line[1] = "#EXT-X-MAP:URI=")

\* The playlist in slot p has at most one init-map tag, which names the first
\* entry of the listing whose lowercased name contains "init" and ends in
\* .mp4 or .m4s, and no fragment entry names that file.
MapTagNamesFirstInit(p) ==
  LET maps == MapLines(procs[p].text)
      inits == SelectSeq(procs[p].listing,
                 LAMBDA f : IncludesInit(toLowerCase(f)) /\ RecognizedExtension(f))
  IN  /\ Len(maps) <= 1
      /\ Len(maps) = 1 <=> inits # <<>>
      /\ Len(maps) = 1 => maps[1] = MapLine(inits[1]) /\ inits[1] \notin Entries(procs[p].text)

\* The last response is the 200 of an init upload to the session of slot p,
\* and the file it reports is in the listing slot p generated from.
InitAccepted(p) ==
  /\ response.op = "upload" /\ response.status = 200 /\ response.id = <<>>
  /\ response.sid = procs[p].sid
  /\ \E i \in 1..Len(procs[p].listing) : procs[p].listing[i] = response.filename

\* C25: every generated playlist has at most one init-map tag, naming the
\* first init candidate of the directory, which is not listed as a fragment;
\* and a playlist generated when the directory holds the file an init upload
\* was just accepted for carries the init-map tag naming that file.
C25_InitMapTag ==
  \A p \in Procs :
    Built(p) =>
      /\ MapTagNamesFirstInit(p)
      /\ InitAccepted(p) => MapLine(response.filename) \in Lines(procs[p].text)

\* ------------------------------------------------------- fractional durations
\* One client that creates sessions with fractional durations (0.5 s, 4.5 s),
\* uploads a numbered fragment, and a process that may be restarted.  The
\* budget is that of InitClient, so that a create, an accept, a restart and
\* another accept fit in one behaviour.
FractionBodies == {Num(5), Num(45)}

NextFraction == Step(OneAtATime, {"s1"}, {Upload(<<"1">>, TRUE, chunk1_mp4, FALSE, TRUE, <<1>>)},
                     FractionBodies)

SpecFraction == InitClient /\ [][NextFraction]_vars

\* C26: every segment duration held in the registry is positive, in every
\* reachable state, entries rebuilt at startup from a persisted playlist
\* included.
C26_RegistryDurationsPositive ==
  \A s \in Sessions : registry[s].present => registry[s].segmentDuration > 0

\* The value of the first line of a text that starts with the given tag: the
\* tokens after the tag.
TagValues(text, tag) ==
  LET lines == SelectSeq(text, LAMBDA line : line # <<>> /\ line[1] = tag)
  IN  {Tail(lines[i]) : i \in 1..Len(lines)}

\* A non-empty run of decimal digits.
IsWholeNumber(cs) == cs # <<>> /\ \A i \in 1..Len(cs) : cs[i] \in Digits

\* A duration in tenths of a second written with exactly three decimals.
ThreeDecimals(t) == NatToChars(t \div 10) \o <<".", DigitChar(t % 10), "0", "0">>

\* C27: in every generated playlist the target-duration tag is a whole number
\* of seconds within one second of the resolved segment duration, and every
\* EXTINF line carries the resolved duration with exactly three decimals.
C27_DurationFormats ==
  \A p \in Procs :
    Built(p) =>
      /\ \A v \in TagValues(procs[p].text, TargetDurationTag) :
           /\ IsWholeNumber(v)
           /\ 10 * DigitsValue(v) - procs[p].dur \in -9..9
      /\ \A v \in TagValues(procs[p].text, "#EXTINF:") :
           v = ThreeDecimals(procs[p].dur) \o <<",">>

\* -------------------------------------------------------- duration resolution
\* C28: when a handler generates its playlist, the duration it resolves is the
\* registered duration if the registry has an entry for the session and the
\* default of 5 seconds if it has none, and in both cases the playlist is
\* generated: the handler goes on to write it.
C28_DurationResolution ==
  [][\A p \in Procs :
       LET entry == registry[procs[p].sid]
       IN  (procs[p].pc \in {"upload_build", "finalize_build"} /\ Moved(p)
              /\ procs'[p].pc # "idle")
           => /\ procs'[p].pc \in {"upload_open", "finalize_open"}
              /\ procs'[p].dur = IF entry.present THEN entry.segmentDuration
                                 ELSE Seconds(DEFAULT_SEGMENT_DURATION)
              /\ TagValues(procs'[p].text, TargetDurationTag)
                   = {NumToChars(procs'[p].dur)}]_vars

\* ----------------------------------------------------------- media sequence
\* C30: for a client that sends one request at a time, the media-sequence
\* value of a playlist that an accept-chunk or a finalize is about to persist
\* is not below that of the playlist it replaces.
C30_MediaSequenceMonotone ==
  \A p \in Procs :
    LET dir == store[procs[p].sid]
    IN  (procs[p].pc \in {"upload_open", "finalize_open"} /\ dir.hasPlaylist)
        => DigitsValue(MediaSequenceOf(procs[p].text))
             >= DigitsValue(MediaSequenceOf(dir.playlist))

\* ----------------------------------------------- reads concurrent with writes
\* Reads of the playlist of one session while numbered fragments are accepted
\* and the session is finalized.
NextRead ==
  \/ Serve(Procs, {"s1"}, {Upload(<<"1">>, TRUE, chunk1_mp4, FALSE, TRUE, <<1>>)}, {Num(40)})
  \/ Read(Procs, {"s1"})

SpecRead == Init /\ [][NextRead]_vars

\* A whole playlist: each header tag once, every EXTINF line directly
\* followed by a fragment entry and every entry directly preceded by one, and
\* the end-of-stream tag nowhere but on the last line.
WholePlaylist(text) ==
  /\ \A tag \in HeaderTags : Len(TagLines(text, tag)) = 1
  /\ \A i \in 1..Len(text) :
       /\ (text[i] # <<>> /\ Head(text[i]) = "#EXTINF:")
            => (i < Len(text) /\ IsEntryLine(text[i + 1]))
       /\ IsEntryLine(text[i])
            => (i > 1 /\ text[i - 1] # <<>> /\ Head(text[i - 1]) = "#EXTINF:")
       /\ text[i] = EndListLine => i = Len(text)

\* C22: the text a read-playlist request is answered with is a whole
\* playlist, also while an accept-chunk or a finalize on the session is
\* writing the file: never an empty or partially written one.
C22_ReadsSeeWholePlaylists ==
  [][\A p \in Procs :
       (procs[p].op = "playlist" /\ Answers(p) /\ response'.status = 200)
         => WholePlaylist(response'.playlist)]_vars

\* ---------------------------------------------------------------- storage paths
\* One client whose requests name a plain session id or one with a parent
\* segment in it, and a process that may be restarted.
NextPaths ==
  Step(OneAtATime, {"s1", Traversal}, {Upload(<<"1">>, TRUE, chunk1_mp4, FALSE, TRUE, <<1>>)},
       {Num(40)})

SpecPaths == Init /\ [][NextPaths]_vars

\* The id is one path component: no separator in it, and not "." or "..".
IsPathComponent(id) == split(id) = <<id>> /\ id \notin {"", ".", ".."}

\* C29: every session id that is in the registry, that a handler in flight
\* works on, or for which a directory or file was written, is a single path
\* component, and the directory written for it is the entry of that name in
\* the storage root.
C29_SessionIdIsPathComponent ==
  \A id \in Ids :
    (\/ registry[id].present
     \/ store[id].exists
     \/ \E p \in Procs : procs[p].pc # "idle" /\ procs[p].sid = id)
    => IsPathComponent(id) /\ IsEntryOfBaseDir(id)

\* ------------------------------------------------- reconciliation at startup
\* C31: right after a restart the registry has an entry for an id exactly
\* when the storage root has a subdirectory of that name, whether or not the
\* session was finalized before.
C31_RegistryKeysAreDirectories ==
  [][Restart =>
       \A id \in Ids :
         registry'[id].present <=> (IsEntryOfBaseDir(id) /\ store'[id].exists)]_vars

\* The process has been restarted after s1 was finalized and nothing has been
\* answered since: the entry of s1, removed at finalize, is there again, and
\* s2, which has no directory, has none.
C31_Witness ==
  /\ response = NoResponse
  /\ \A p \in Procs : procs[p].pc = "idle"
  /\ finalized["s1"]
  /\ store["s1"].exists /\ EndsWithEndList(store["s1"].playlist)
  /\ registry["s1"].present
  /\ ~store["s2"].exists /\ ~registry["s2"].present

\* ------------------------------------------------ durations across later writes
\* The values of the EXTINF lines of a text.
FragmentDurations(text) == TagValues(text, "#EXTINF:")

\* C32: for a client that sends one request at a time, when a handler is about
\* to replace a persisted playlist that declares a duration and the registry
\* has no entry for the session, the text it has generated declares that same
\* duration, in its target-duration tag and in its EXTINF lines: the duration
\* is recovered from the directory.
C32_DurationSurvivesRegistryMiss ==
  \A p \in Procs :
    LET dir == store[procs[p].sid]
    IN  (/\ procs[p].pc \in {"upload_open", "finalize_open"}
         /\ ~registry[procs[p].sid].present
         /\ dir.hasPlaylist
         /\ TagValues(dir.playlist, TargetDurationTag) # {})
        => /\ TagValues(procs[p].text, TargetDurationTag)
                = TagValues(dir.playlist, TargetDurationTag)
           /\ (FragmentDurations(dir.playlist) # {} /\ FragmentDurations(procs[p].text) # {})
                => FragmentDurations(procs[p].text) = FragmentDurations(dir.playlist)

\* ------------------------------------------------------ nothing is deleted
\* The server by itself: two request slots on one session, creates with a
\* valid and with a rejected duration, process restarts, and nothing outside
\* the server that deletes directories.
KeepUploads ==
  { Upload(<<"0">>, TRUE, init_0_mp4, TRUE, TRUE, <<1>>),
    Upload(<<"1">>, TRUE, chunk1_mp4, FALSE, TRUE, <<1>>) }

NextKeep ==
  \/ Serve(Procs, {"s1"}, KeepUploads, {Num(80), Num(0 - 10)})
  \/ Restart

SpecKeep == Init /\ [][NextKeep]_vars

\* C33: when nothing outside the server deletes directories, after every step
\* each id that has a registry entry has a session directory, and no step
\* removes a session directory or a file from one.
C33_RegisteredSessionsHaveDirectories ==
  [][\A id \in Ids :
       /\ registry'[id].present => store'[DirOf(id)].exists
       /\ store[id].exists
            => store'[id].exists /\ Names(store[id]) \subseteq Names(store'[id])]_vars

\* A session with a registry entry and a fragment in its directory has been
\* finalized and is registered again after a restart, its files still there.
C33_Witness ==
  /\ finalized["s1"]
  /\ registry["s1"].present
  /\ response = NoResponse
  /\ store["s1"].exists
  /\ chunk1_mp4 \in Names(store["s1"])
  /\ EndsWithEndList(store["s1"].playlist)

\* -------------------------------------------------------- a rejected create
\* C34: a create that is rejected with 400 for its duration leaves the chunk
\* store as it was when the request arrived: if the session had no directory
\* then, it has none when the rejection is answered.
C34_RejectedCreateLeavesStore ==
  [][\A p \in Procs :
       (procs[p].op = "create" /\ Answers(p) /\ response'.status = 400 /\ procs[p].fresh)
         => ~store'[procs[p].sid].exists]_vars

\* -------------------------------------------------------- cross-session isolation
\* Two request slots whose requests name the session s2 or the id "s1/../s2".
NextIsolation ==
  Serve(Procs, {"s2", Alias}, {Upload(<<"1">>, TRUE, chunk1_mp4, FALSE, TRUE, <<1>>)}, {Num(80)})

SpecIsolation == Init /\ [][NextIsolation]_vars

\* The session id of the request that slot p takes or works on in this step.
WorksOn(p) == IF procs[p].pc = "idle" THEN procs'[p].sid ELSE procs[p].sid

\* C35: a step of create, accept-chunk or finalize changes the registry
\* entry, the directory contents or the persisted playlist of a session B
\* only if it is a step of a request on the id B.
C35_CrossSessionIsolation ==
  [][\A B \in Sessions :
       (registry'[B] # registry[B] \/ store'[DirOf(B)] # store[DirOf(B)])
         => \E p \in Procs : Moved(p) /\ WorksOn(p) = B]_vars

====
